---- MODULE Spec2Model ----
(***************************************************************************)
(* MedTrack (src/app.py): a Flask application over three DynamoDB tables   *)
(* (users, doctors, appointments), a per-client session, an SNS topic and  *)
(* a mail transport.                                                       *)
(*                                                                         *)
(* Requests are handled by worker threads (Procs).  A handler runs as     *)
(* atomic steps that end at its blocking calls (get_item, put_item, scan,  *)
(* mail.send, sns.publish): the first step goes from the arrival of the    *)
(* request to the handler's first blocking call, each later step performs  *)
(* the call the handler waits in and goes on to the next call or to the    *)
(* return.  Handlers of different requests interleave between the steps.   *)
(* A handler that makes no blocking call is one step.  Table calls are     *)
(* taken to complete; mail.send and sns.publish return or raise.           *)
(*                                                                         *)
(* flask.session is the default cookie session (app.secret_key, line 13):  *)
(* a request works on the session its cookie held when it arrived          *)
(* (ctx_session), and the response of a request that modified the session  *)
(* sets the client's cookie to that session.  The session is modified by   *)
(* login, by logout, by every flash, and by a rendered page whose template *)
(* takes the flashed messages out of it (get_flashed_messages).            *)
(*                                                                         *)
(* The variable last is the observation of the program from outside: the   *)
(* request answered by the latest step and its response, or NoLast when    *)
(* the step answered nothing.  No handler reads it.                        *)
(*                                                                         *)
(* Next is the program: a request can arrive in any state.  The            *)
(* properties are checked under NextInTurn, in which the observation is    *)
(* taken off (respond) before the next request arrives; see there for why  *)
(* a property of the steps of NextInTurn is a property of the steps of     *)
(* Next.                                                                   *)
(***************************************************************************)
EXTENDS Integers, Sequences, FiniteSets, TLC

(* ---------- bounds ---------- *)
MaxUuid == 2

Procs == {1, 2}
Clients == {"c1"}

(* ---------- input values of the forms ---------- *)
Usernames == {"alice", "bob"}
Passwords == {"pw1", "pw2"}
Dates == {"2024-01-01"}
Reasons == {"checkup"}
Uuids == <<"uuid-1", "uuid-2", "uuid-3", "uuid-4", "uuid-5">>
DoctorIdInputs == {"bob", "uuid-1"}
DoctorNames == {"Dr. X"}
Specializations == {"Cardio"}
Emails == {"x@x.com"}

None == "None"
MedTrackTopic == "arn:aws:sns:us-east-1:1:medtrack"
TopicArns == {None, MedTrackTopic}

VARIABLES
    users_table,          \* items of table 'users', key username
    doctors_table,        \* items of table 'doctors', key doctor_id
    appointments_table,   \* items of table 'appointments', key (appointment_id, doctor_id)
    session,              \* per client: the identity keys of the session cookie
    ctx_session,          \* per worker: flask.session as loaded when its request arrived
    SNS_TOPIC_ARN,        \* os.getenv('SNS_TOPIC_ARN'), fixed at start-up
    uuidCount,            \* number of uuid.uuid4() values generated so far
    pc,                   \* per worker: the handler step it is at, or "idle"
    req,                  \* per worker: the request it is handling
    item,                 \* per worker: the Item built by the handler, with its uuid
    last                  \* the request answered by the latest step and its response

vars == <<users_table, doctors_table, appointments_table, session, ctx_session,
          SNS_TOPIC_ARN, uuidCount, pc, req, item, last>>

(* ---------- DynamoDB tables (src/app.py:49-77) ---------- *)
UsersKey == {"username"}
DoctorsKey == {"doctor_id"}

AppointmentsKey_doctorOnly == {"doctor_id"}

\* KeySchema of 'appointments': appointment_id HASH, doctor_id RANGE
AppointmentsKey == {"appointment_id", "doctor_id"}

SameKey(key, i, j) == \A a \in key : i[a] = j[a]

\* Table.get_item(Key=k): the response holds 'Item' iff an item has that key
get_item(table, key, k) == {i \in table : SameKey(key, i, k)}

put_item_ifAbsent(table, key, it) ==
    IF \E i \in table : SameKey(key, i, it) THEN table ELSE table \cup {it}

\* Table.put_item(Item=it): unconditional upsert on the table's key
put_item(table, key, it) == {i \in table : ~SameKey(key, i, it)} \cup {it}

\* Table.scan(FilterExpression=Attr(attr).eq(value)).get('Items', [])
scan_eq(table, attr, value) == {i \in table : i[attr] = value}

\* Table.scan().get('Items', [])
scan(table) == table

uuid4_once(n) == Uuids[1]

(* ---------- uuid.uuid4(): a value never generated before ---------- *)
uuid4(n) == Uuids[n + 1]

(* ---------- session ---------- *)
EmptySession == [has |-> {}, username |-> None, role |-> None]
Identity(u, r) == [has |-> {"username", "role"}, username |-> u, role |-> r]

(* ---------- responses ---------- *)
NoFlash == "-"
NoReq == [route |-> "-", method |-> "-", client |-> "-"]
NoItem == [appointment_id |-> "-"]
Response(status, target, msg, items, mailed, published) ==
    [status |-> status, target |-> target, flash |-> msg, items |-> items,
     mail |-> mailed, sns |-> published]
NoResp == Response(0, "-", NoFlash, {}, "none", "none")
Returned(r, response) == [req |-> r, resp |-> response]
\* no response is on its way to a client
NoLast == Returned(NoReq, NoResp)
render_template(t, items) == Response(200, t, NoFlash, items, "none", "none")
redirect(loc) == Response(302, loc, NoFlash, {}, "none", "none")
\* the response of a handler that has flashed msg
flashed(r, msg) == [r EXCEPT !.flash = msg]

(* ---------- flash(message) ---------- *)
\* flash writes session['_flashes'], which marks the session modified: the
\* response then sets the cookie of client c to the session s that the handler
\* holds, identity keys included (the '_flashes' key itself is not kept here)
flash(c, s) == session' = [session EXCEPT ![c] = s]

(* ---------- get_flashed_messages() ---------- *)
\* the templates call get_flashed_messages(), which pops session['_flashes']
\* when the session s of the request holds flashed messages: the session is
\* then modified and the response sets the cookie of client c to s; otherwise
\* the session is only read and the cookie stays.  The '_flashes' key is not
\* kept here, so a rendered page has both outcomes.  (For a page rendered in
\* the step its request arrived, s is the cookie itself and the two outcomes
\* are one.)
get_flashed_messages(c, s) ==
    \/ UNCHANGED session
    \/ session' = [session EXCEPT ![c] = s]

(* ---------- requests a client can send ---------- *)
RegisterForms ==
    {[role |-> "patient", username |-> "alice", password |-> "pw1"],
     [role |-> "admin", username |-> "alice", password |-> "pw2"],
     [role |-> "patient", username |-> "bob", password |-> "pw1"],
     [role |-> "doctor", username |-> "bob", password |-> "pw2"]}

Get(route, c) == [route |-> route, method |-> "GET", client |-> c]

RegisterRequests ==
    {[route |-> "/register", method |-> "POST", client |-> c, role |-> f.role,
      username |-> f.username, password |-> f.password] :
        c \in Clients, f \in RegisterForms}
    \cup {Get("/register", c) : c \in Clients}

LoginRequests ==
    [route : {"/login"}, method : {"POST"}, client : Clients,
     username : Usernames, password : Passwords]
    \cup {Get("/login", c) : c \in Clients}

BookRequests ==
    [route : {"/appointment/book"}, method : {"POST"}, client : Clients,
     doctor_id : DoctorIdInputs, date : Dates, reason : Reasons]
    \cup {Get("/appointment/book", c) : c \in Clients}

DoctorRegisterRequests ==
    [route : {"/doctor/register"}, method : {"POST"}, client : Clients,
     name : DoctorNames, specialization : Specializations, email : Emails]
    \cup {Get("/doctor/register", c) : c \in Clients}

(* ---------- decisions of the handlers ---------- *)
\* if 'Item' in response  (register)
ItemInResponse(response) == response /= {}

\* if user and user['password'] == password  (login)
CredentialsOk(response, password) ==
    \E user \in response : user.password = password

Authorized_anyRole(s, role) == "role" \in s.has

\* 'role' in session and session['role'] == role  (the gate of each route)
Authorized(s, role) == "role" \in s.has /\ s.role = role

send_sns_notification_uncaught(topic, publish_ok) ==
    IF topic /= None /\ topic /= ""
    THEN IF publish_ok THEN [sns |-> "published", raised |-> FALSE]
                       ELSE [sns |-> "error", raised |-> TRUE]
    ELSE [sns |-> "skipped", raised |-> FALSE]

\* send_sns_notification(message): the publish attempt and whether it raises
send_sns_notification(topic, publish_ok) ==
    IF topic /= None /\ topic /= ""
    THEN IF publish_ok THEN [sns |-> "published", raised |-> FALSE]
                       ELSE [sns |-> "error", raised |-> FALSE]
    ELSE [sns |-> "skipped", raised |-> FALSE]

\* try: mail.send(msg)  except Exception: print(...)
send_welcome_email(send_ok) ==
    IF send_ok THEN [mail |-> "sent", raised |-> FALSE]
               ELSE [mail |-> "error", raised |-> FALSE]

\* the Item of users_table.put_item in register
UserItem(r) == [username |-> r.username, password |-> r.password, role |-> r.role]

AppointmentItem_swapped(appointment_id, r, s) ==
    [appointment_id |-> appointment_id, doctor_id |-> r.doctor_id,
     patient_email |-> s.username, date |-> r.reason, reason |-> r.date,
     status |-> "Scheduled"]

\* the Item of appointments_table.put_item in book_appointment
AppointmentItem(appointment_id, r, s) ==
    [appointment_id |-> appointment_id, doctor_id |-> r.doctor_id,
     patient_email |-> s.username, date |-> r.date, reason |-> r.reason,
     status |-> "Scheduled"]

\* the Item of doctors_table.put_item in doctor_register
DoctorItem(doctor_id, r) ==
    [doctor_id |-> doctor_id, name |-> r.name,
     specialization |-> r.specialization, email |-> r.email]

InternalServerError == Response(500, "-", NoFlash, {}, "none", "none")

(* ---------- initial state ---------- *)
\* the tables are empty, nobody is logged in, no request is in progress
InitWith(topics) ==
    /\ users_table = {}
    /\ doctors_table = {}
    /\ appointments_table = {}
    /\ session = [c \in Clients |-> EmptySession]
    /\ ctx_session = [p \in Procs |-> EmptySession]
    /\ SNS_TOPIC_ARN \in topics
    /\ uuidCount = 0
    /\ pc = [p \in Procs |-> "idle"]
    /\ req = [p \in Procs |-> NoReq]
    /\ item = [p \in Procs |-> NoItem]
    /\ last = NoLast

\* the deployment with the SNS topic configured
Init == InitWith({MedTrackTopic})

\* any deployment: SNS_TOPIC_ARN set or unset
InitAnyTopic == InitWith(TopicArns)
(* ---------- steps ---------- *)
\* a request is picked up by the first idle worker (workers are
\* interchangeable)
Idle(p) ==
    /\ pc[p] = "idle"
    /\ \A q \in Procs : q < p => pc[q] /= "idle"

\* worker p answers request rq with response r in the step the request arrived
Return(p, rq, r) ==
    /\ last' = Returned(rq, r)
    /\ UNCHANGED <<pc, req, item, ctx_session>>

\* worker p, handling request r with the session s that r arrived with and the
\* Item it built, reaches the handler's first blocking call, next, answering
\* nothing
Continue(p, r, s, it, next) ==
    /\ pc' = [pc EXCEPT ![p] = next]
    /\ req' = [req EXCEPT ![p] = r]
    /\ ctx_session' = [ctx_session EXCEPT ![p] = s]
    /\ item' = [item EXCEPT ![p] = it]
    /\ last' = NoLast

\* worker p goes from the blocking call it was in to the next one, answering
\* nothing
Proceed(p, next) ==
    /\ pc' = [pc EXCEPT ![p] = next]
    /\ last' = NoLast
    /\ UNCHANGED <<req, item, ctx_session>>

\* worker p answers its request with response r after a blocking call
ReturnLate(p, r) ==
    /\ last' = Returned(req[p], r)
    /\ pc' = [pc EXCEPT ![p] = "idle"]
    /\ req' = [req EXCEPT ![p] = NoReq]
    /\ item' = [item EXCEPT ![p] = NoItem]
    /\ ctx_session' = [ctx_session EXCEPT ![p] = EmptySession]

\* home, lines 92-94
home(p) ==
    /\ Idle(p)
    /\ \E c \in Clients : Return(p, Get("/", c), render_template("home.html", {}))
    /\ UNCHANGED <<users_table, doctors_table, appointments_table, session,
                   SNS_TOPIC_ARN, uuidCount>>

\* register, lines 98-104 and 131: the form, up to the call of get_item; the
\* page of a GET
register(p) ==
    /\ Idle(p)
    /\ \E r \in RegisterRequests :
        IF r.method = "POST"
        THEN Continue(p, r, session[r.client], NoItem, "register_get_item")
        ELSE Return(p, r, render_template("register.html", {}))
    /\ UNCHANGED <<users_table, doctors_table, appointments_table, session,
                   SNS_TOPIC_ARN, uuidCount>>

\* register, lines 104-107: the existence check
register_get_item(p) ==
    /\ pc[p] = "register_get_item"
    /\ LET r == req[p]
           response == get_item(users_table, UsersKey, [username |-> r.username])
       IN IF ItemInResponse(response)
          THEN /\ flash(r.client, ctx_session[p])
               /\ ReturnLate(p, flashed(render_template("register.html", {}),
                                        "User already exists!"))
          ELSE /\ Proceed(p, "register_put_item")
               /\ UNCHANGED session
    /\ UNCHANGED <<users_table, doctors_table, appointments_table,
                   SNS_TOPIC_ARN, uuidCount>>

\* register, lines 110-114: the put
register_put_item(p) ==
    /\ pc[p] = "register_put_item"
    /\ users_table' = put_item(users_table, UsersKey, UserItem(req[p]))
    /\ Proceed(p, "register_mail_send")
    /\ UNCHANGED <<doctors_table, appointments_table, session,
                   SNS_TOPIC_ARN, uuidCount>>

\* register, lines 117-129: the welcome email, the flash and the return
register_mail_send(p) ==
    /\ pc[p] = "register_mail_send"
    /\ \E send_ok \in BOOLEAN :
        LET m == send_welcome_email(send_ok)
        IN IF m.raised
           THEN /\ ReturnLate(p, [InternalServerError EXCEPT !.mail = m.mail])
                /\ UNCHANGED session
           ELSE /\ flash(req[p].client, ctx_session[p])
                /\ ReturnLate(p, [flashed(redirect("/login"),
                                          "Registration successful! Please log in.")
                                  EXCEPT !.mail = m.mail])
    /\ UNCHANGED <<users_table, doctors_table, appointments_table,
                   SNS_TOPIC_ARN, uuidCount>>

\* login, lines 135-139 and 148: the form, up to the call of get_item; the page
\* of a GET
login(p) ==
    /\ Idle(p)
    /\ \E r \in LoginRequests :
        IF r.method = "POST"
        THEN Continue(p, r, session[r.client], NoItem, "login_get_item")
        ELSE Return(p, r, render_template("login.html", {}))
    /\ UNCHANGED <<users_table, doctors_table, appointments_table, session,
                   SNS_TOPIC_ARN, uuidCount>>

login_get_item_usernameFirst(p) ==
    /\ pc[p] = "login_get_item"
    /\ LET r == req[p]
           response == get_item(users_table, UsersKey, [username |-> r.username])
       IN IF CredentialsOk(response, r.password)
          THEN LET user == CHOOSE i \in response : TRUE
               IN /\ flash(r.client, [ctx_session[p] EXCEPT
                                         !.has = @ \cup {"username", "role"},
                                         !.username = r.username,
                                         !.role = user.role])
                  /\ ReturnLate(p, redirect("/" \o user.role))
          ELSE /\ flash(r.client, [ctx_session[p] EXCEPT
                                      !.has = @ \cup {"username"},
                                      !.username = r.username])
               /\ ReturnLate(p, flashed(render_template("login.html", {}),
                                        "Invalid credentials!"))
    /\ UNCHANGED <<users_table, doctors_table, appointments_table,
                   SNS_TOPIC_ARN, uuidCount>>

\* login, lines 139-148: the lookup, the comparison of the password, and the
\* session keys written (a modified session is saved as flash saves it)
login_get_item(p) ==
    /\ pc[p] = "login_get_item"
    /\ LET r == req[p]
           response == get_item(users_table, UsersKey, [username |-> r.username])
       IN IF CredentialsOk(response, r.password)
          THEN LET user == CHOOSE i \in response : TRUE
               IN /\ flash(r.client, [ctx_session[p] EXCEPT
                                         !.has = @ \cup {"username", "role"},
                                         !.username = r.username,
                                         !.role = user.role])
                  /\ ReturnLate(p, redirect("/" \o user.role))
          ELSE /\ flash(r.client, ctx_session[p])
               /\ ReturnLate(p, flashed(render_template("login.html", {}),
                                        "Invalid credentials!"))
    /\ UNCHANGED <<users_table, doctors_table, appointments_table,
                   SNS_TOPIC_ARN, uuidCount>>

\* doctor_dashboard, lines 150-154
doctor_dashboard(p) ==
    /\ Idle(p)
    /\ \E c \in Clients :
        LET s == session[c]
        IN IF Authorized(s, "doctor")
           THEN Return(p, Get("/doctor", c),
                       render_template("doctor_dashboard.html",
                                       {[username |-> s.username]}))
           ELSE Return(p, Get("/doctor", c), redirect("/login"))
    /\ UNCHANGED <<users_table, doctors_table, appointments_table, session,
                   SNS_TOPIC_ARN, uuidCount>>

\* patient_dashboard, lines 156-160
patient_dashboard(p) ==
    /\ Idle(p)
    /\ \E c \in Clients :
        LET s == session[c]
        IN IF Authorized(s, "patient")
           THEN Return(p, Get("/patient", c),
                       render_template("patient_dashboard.html",
                                       {[username |-> s.username]}))
           ELSE Return(p, Get("/patient", c), redirect("/login"))
    /\ UNCHANGED <<users_table, doctors_table, appointments_table, session,
                   SNS_TOPIC_ARN, uuidCount>>

\* logout, lines 162-165: session.clear(), saved with the response
logout(p) ==
    /\ Idle(p)
    /\ \E c \in Clients :
        /\ flash(c, EmptySession)
        /\ Return(p, Get("/logout", c), redirect("/"))
    /\ UNCHANGED <<users_table, doctors_table, appointments_table,
                   SNS_TOPIC_ARN, uuidCount>>

\* book_appointment, lines 168-180 and 197: the gate; for a POST the locals, up
\* to the call of put_item; for a GET up to the call of scan
book_appointment(p) ==
    /\ Idle(p)
    /\ \E r \in BookRequests :
        LET s == session[r.client]
        IN IF ~Authorized(s, "patient")
           THEN /\ Return(p, r, redirect("/login"))
                /\ UNCHANGED uuidCount
           ELSE IF r.method = "POST"
                THEN /\ uuidCount < MaxUuid
                     /\ uuidCount' = uuidCount + 1
                     /\ Continue(p, r, s, AppointmentItem(uuid4(uuidCount), r, s),
                                 "book_appointment_put_item")
                ELSE /\ Continue(p, r, s, NoItem, "book_appointment_scan")
                     /\ UNCHANGED uuidCount
    /\ UNCHANGED <<users_table, doctors_table, appointments_table, session,
                   SNS_TOPIC_ARN>>

\* book_appointment, lines 197-198: the scan and the booking page with its
\* doctors
book_appointment_scan(p) ==
    /\ pc[p] = "book_appointment_scan"
    /\ ReturnLate(p, render_template("book_appointment.html", scan(doctors_table)))
    /\ get_flashed_messages(req[p].client, ctx_session[p])
    /\ UNCHANGED <<users_table, doctors_table, appointments_table,
                   SNS_TOPIC_ARN, uuidCount>>

book_appointment_put_item_knownDoctor(p) ==
    /\ pc[p] = "book_appointment_put_item"
    /\ appointments_table' =
          IF \E d \in doctors_table : d.doctor_id = item[p].doctor_id
          THEN put_item(appointments_table, AppointmentsKey, item[p])
          ELSE appointments_table
    /\ Proceed(p, "send_sns_notification")
    /\ UNCHANGED <<users_table, doctors_table, session, SNS_TOPIC_ARN, uuidCount>>

book_appointment_put_item_afterNotify(p) ==
    /\ pc[p] = "book_appointment_put_item"
    /\ Proceed(p, "send_sns_notification")
    /\ UNCHANGED <<users_table, doctors_table, appointments_table, session,
                   SNS_TOPIC_ARN, uuidCount>>

\* book_appointment, lines 180-187: the put
book_appointment_put_item(p) ==
    /\ pc[p] = "book_appointment_put_item"
    /\ appointments_table' = put_item(appointments_table, AppointmentsKey, item[p])
    /\ Proceed(p, "send_sns_notification")
    /\ UNCHANGED <<users_table, doctors_table, session, SNS_TOPIC_ARN, uuidCount>>

\* the notification, the flash and the return of book_appointment, lines 189-194
book_appointment_notify(p, publish_ok) ==
    LET n == send_sns_notification(SNS_TOPIC_ARN, publish_ok)
    IN IF n.raised
       THEN /\ ReturnLate(p, [InternalServerError EXCEPT !.sns = n.sns])
            /\ UNCHANGED session
       ELSE /\ flash(req[p].client, ctx_session[p])
            /\ ReturnLate(p, [flashed(redirect("/patient"),
                                      "Appointment booked successfully!")
                              EXCEPT !.sns = n.sns])

\* book_appointment, lines 189-194: the call of send_sns_notification (its one
\* publish attempt, or none without a topic), then the flash and the return
book_appointment_send_sns(p) ==
    /\ pc[p] = "send_sns_notification"
    /\ \E publish_ok \in BOOLEAN : book_appointment_notify(p, publish_ok)
    /\ UNCHANGED <<users_table, doctors_table, appointments_table,
                   SNS_TOPIC_ARN, uuidCount>>

\* doctor_appointments, lines 203-206: the gate, up to the call of scan
doctor_appointments(p) ==
    /\ Idle(p)
    /\ \E c \in Clients :
        LET s == session[c]
        IN IF ~Authorized(s, "doctor")
           THEN Return(p, Get("/doctor/appointments", c), redirect("/login"))
           ELSE Continue(p, Get("/doctor/appointments", c), s, NoItem,
                         "doctor_appointments_scan")
    /\ UNCHANGED <<users_table, doctors_table, appointments_table, session,
                   SNS_TOPIC_ARN, uuidCount>>

doctor_appointments_scan_patientFilter(p) ==
    /\ pc[p] = "doctor_appointments_scan"
    /\ ReturnLate(p, render_template("view_appointment_doctor.html",
                        scan_eq(appointments_table, "patient_email",
                                ctx_session[p].username)))
    /\ get_flashed_messages(req[p].client, ctx_session[p])
    /\ UNCHANGED <<users_table, doctors_table, appointments_table,
                   SNS_TOPIC_ARN, uuidCount>>

\* doctor_appointments, lines 205-210: the scan, filtered on the username of
\* the session the request arrived with, and the page
doctor_appointments_scan(p) ==
    /\ pc[p] = "doctor_appointments_scan"
    /\ ReturnLate(p, render_template("view_appointment_doctor.html",
                        scan_eq(appointments_table, "doctor_id",
                                ctx_session[p].username)))
    /\ get_flashed_messages(req[p].client, ctx_session[p])
    /\ UNCHANGED <<users_table, doctors_table, appointments_table,
                   SNS_TOPIC_ARN, uuidCount>>

\* patient_appointments, lines 215-218: the gate, up to the call of scan
patient_appointments(p) ==
    /\ Idle(p)
    /\ \E c \in Clients :
        LET s == session[c]
        IN IF ~Authorized(s, "patient")
           THEN Return(p, Get("/patient/appointments", c), redirect("/login"))
           ELSE Continue(p, Get("/patient/appointments", c), s, NoItem,
                         "patient_appointments_scan")
    /\ UNCHANGED <<users_table, doctors_table, appointments_table, session,
                   SNS_TOPIC_ARN, uuidCount>>

patient_appointments_scan_doctorFilter(p) ==
    /\ pc[p] = "patient_appointments_scan"
    /\ ReturnLate(p, render_template("view_appointment_patient.html",
                        scan_eq(appointments_table, "doctor_id",
                                ctx_session[p].username)))
    /\ get_flashed_messages(req[p].client, ctx_session[p])
    /\ UNCHANGED <<users_table, doctors_table, appointments_table,
                   SNS_TOPIC_ARN, uuidCount>>

\* patient_appointments, lines 217-222: the scan, filtered on the username of
\* the session the request arrived with, and the page
patient_appointments_scan(p) ==
    /\ pc[p] = "patient_appointments_scan"
    /\ ReturnLate(p, render_template("view_appointment_patient.html",
                        scan_eq(appointments_table, "patient_email",
                                ctx_session[p].username)))
    /\ get_flashed_messages(req[p].client, ctx_session[p])
    /\ UNCHANGED <<users_table, doctors_table, appointments_table,
                   SNS_TOPIC_ARN, uuidCount>>

doctor_register_gated(p) ==
    /\ Idle(p)
    /\ \E r \in DoctorRegisterRequests :
        IF r.method = "POST"
        THEN IF Authorized(session[r.client], "doctor")
             THEN /\ uuidCount < MaxUuid
                  /\ uuidCount' = uuidCount + 1
                  /\ Continue(p, r, session[r.client],
                              DoctorItem(uuid4(uuidCount), r),
                              "doctor_register_put_item")
             ELSE /\ Return(p, r, redirect("/login"))
                  /\ UNCHANGED uuidCount
        ELSE /\ Return(p, r, render_template("doctor_register.html", {}))
             /\ UNCHANGED uuidCount
    /\ UNCHANGED <<users_table, doctors_table, appointments_table, session,
                   SNS_TOPIC_ARN>>

\* doctor_register, lines 227-232 and 240: the uuid and the form, up to the
\* call of put_item; the page of a GET
doctor_register(p) ==
    /\ Idle(p)
    /\ \E r \in DoctorRegisterRequests :
        IF r.method = "POST"
        THEN /\ uuidCount < MaxUuid
             /\ uuidCount' = uuidCount + 1
             /\ Continue(p, r, session[r.client], DoctorItem(uuid4(uuidCount), r),
                         "doctor_register_put_item")
        ELSE /\ Return(p, r, render_template("doctor_register.html", {}))
             /\ UNCHANGED uuidCount
    /\ UNCHANGED <<users_table, doctors_table, appointments_table, session,
                   SNS_TOPIC_ARN>>

\* doctor_register, lines 232-239: the put, the flash and the return
doctor_register_put_item(p) ==
    /\ pc[p] = "doctor_register_put_item"
    /\ doctors_table' = put_item(doctors_table, DoctorsKey, item[p])
    /\ flash(req[p].client, ctx_session[p])
    /\ ReturnLate(p, flashed(redirect("/login"), "Doctor registered successfully!"))
    /\ UNCHANGED <<users_table, appointments_table, SNS_TOPIC_ARN, uuidCount>>

\* the observation is taken off: the response of the latest return has
\* reached its client
respond ==
    /\ last /= NoLast
    /\ last' = NoLast
    /\ UNCHANGED <<users_table, doctors_table, appointments_table, session,
                   ctx_session, SNS_TOPIC_ARN, uuidCount, pc, req, item>>

\* a request arrives and worker p runs its handler up to the first blocking
\* call, or to the return
Arrival(p) ==
    \/ home(p)
    \/ register(p)
    \/ login(p)
    \/ doctor_dashboard(p)
    \/ patient_dashboard(p)
    \/ logout(p)
    \/ book_appointment(p)
    \/ doctor_appointments(p)
    \/ patient_appointments(p)
    \/ doctor_register(p)

\* the blocking call that worker p waits in completes and its handler runs on
Resumption(p) ==
    \/ register_get_item(p)
    \/ register_put_item(p)
    \/ register_mail_send(p)
    \/ login_get_item(p)
    \/ book_appointment_scan(p)
    \/ book_appointment_put_item(p)
    \/ book_appointment_send_sns(p)
    \/ doctor_appointments_scan(p)
    \/ patient_appointments_scan(p)
    \/ doctor_register_put_item(p)

\* the program: requests arrive at any time, whatever was answered last
Next ==
    \/ respond
    \/ \E p \in Procs : Arrival(p) \/ Resumption(p)

Spec == Init /\ [][Next]_vars

\* any deployment
SpecAnyTopic == InitAnyTopic /\ [][Next]_vars

(* ---------- the program, observed in turn ---------- *)
\* The steps of Next in which a request arrives only once the observation has
\* been taken off.  With v the variables other than last:
\*   - no step reads last but respond, which changes last only, and the guard
\*     last = NoLast below;
\*   - so a step of Next from (v, l) to (v', l') that is an arrival is, after
\*     respond, the step of NextInTurn from (v, NoLast) to (v', l'), and every
\*     other step of Next is a step of NextInTurn: the two have the same
\*     reachable states, and the same steps up to the value of last before an
\*     arrival;
\*   - the properties below read, of last, the value after the step (last')
\*     only: each holds of the steps of Next iff it holds of the steps of
\*     NextInTurn.
\* NextInTurn keeps the number of states small enough to enumerate: under
\* Next every answered state has all the arrivals as successors.
NextInTurn ==
    \/ respond
    \/ \E p \in Procs : Resumption(p)
    \/ last = NoLast /\ \E p \in Procs : Arrival(p)

SpecInTurn == Init /\ [][NextInTurn]_vars

\* any deployment
SpecInTurnAnyTopic == InitAnyTopic /\ [][NextInTurn]_vars

(* ---------- register requests handled one at a time ---------- *)
RegisterInFlight ==
    {p \in Procs : pc[p] \in {"register_get_item", "register_put_item",
                              "register_mail_send"}}

NextOneAtATime == NextInTurn /\ Cardinality(RegisterInFlight') <= 1

SpecOneAtATime == Init /\ [][NextOneAtATime]_vars

(* ---------- steps as seen from outside ---------- *)
\* a request has been answered in the step it arrived
ReturnedAtOnce == last' /= NoLast /\ pc' = pc

\* worker p has taken up a request that is not answered at once
Arrives(p) == pc[p] = "idle" /\ pc'[p] /= "idle"

\* worker p has answered its request after a blocking call
ReturnedLate(p) == pc[p] /= "idle" /\ pc'[p] = "idle"

\* the steps of register
RegisterChecks(p) == pc[p] = "register_get_item" /\ pc'[p] /= pc[p]
RegisterPuts(p) == pc[p] = "register_put_item" /\ pc'[p] /= pc[p]
RegisterReturns(p) == pc[p] = "register_mail_send" /\ ReturnedLate(p)

\* the step of login that answers
LoginReturns(p) == pc[p] = "login_get_item" /\ ReturnedLate(p)

\* the steps of a booking POST
BookingStarts(p) == pc[p] = "idle" /\ pc'[p] = "book_appointment_put_item"
BookingPuts(p) == pc[p] = "book_appointment_put_item" /\ pc'[p] /= pc[p]
BookingReturns(p) == pc[p] = "send_sns_notification" /\ ReturnedLate(p)

\* the steps that answer the listings and the booking page
PatientListingReturns(p) == pc[p] = "patient_appointments_scan" /\ ReturnedLate(p)
DoctorListingReturns(p) == pc[p] = "doctor_appointments_scan" /\ ReturnedLate(p)
BookingPageReturns(p) == pc[p] = "book_appointment_scan" /\ ReturnedLate(p)

\* the step of a doctor registration POST that puts and answers
DoctorRegisterPuts(p) == pc[p] = "doctor_register_put_item" /\ ReturnedLate(p)

StoredUser(u) == {i \in users_table : i.username = u}

\* the session holds an identity and its role is the given one
SessionHasRole(s, role) == s /= EmptySession /\ s.role = role

(* ---------- C1 ---------- *)
\* C1: a login POST for (u, p) sets the session to {u, stored role of u} and
\* redirects to /<role> iff the users store holds a record for u with password
\* exactly p; otherwise it answers 'Invalid credentials' and its response puts
\* no identity of u in the client's session.
C1_LoginIffStoredPassword ==
    [][\A p \in Procs :
        LoginReturns(p)
        => LET r == req[p]
               match == {i \in StoredUser(r.username) : i.password = r.password}
           IN IF match /= {}
              THEN \E i \in match :
                      /\ session'[r.client] = Identity(r.username, i.role)
                      /\ last'.resp = redirect("/" \o i.role)
              ELSE /\ last'.resp.flash = "Invalid credentials!"
                   /\ last'.resp.status = 200
                   /\ (session'[r.client] /= session[r.client]
                          => session'[r.client].username /= r.username)]_vars

(* ---------- C2 ---------- *)
\* C2: with register requests handled one at a time, a register POST for a
\* stored username answers 'User already exists', sends no welcome email and
\* changes nothing (no table, no session); a stored user record stays as first
\* registered.
C2_ReRegisterRejected ==
    [][/\ \A i \in users_table : i \in users_table'
       /\ \A p \in Procs :
            (RegisterChecks(p) /\ StoredUser(req[p].username) /= {})
            => /\ ReturnedLate(p)
               /\ last'.resp.flash = "User already exists!"
               /\ last'.resp.mail = "none"
               /\ UNCHANGED <<users_table, doctors_table, appointments_table,
                              session>>]_vars

(* ---------- C3 ---------- *)
\* C3: a register request that has passed the existence check puts its record
\* whatever has been stored since (the later put replaces the earlier record)
\* and reports 'Registration successful', never 'User already exists'; two
\* requests for one username can both be past that check.
C3_LaterPutWins ==
    [][\A p \in Procs :
        /\ RegisterPuts(p)
           => {i \in users_table' : i.username = req[p].username}
                 = {UserItem(req[p])}
        /\ RegisterReturns(p)
           => /\ last'.req = req[p]
              /\ last'.resp.flash = "Registration successful! Please log in."
              /\ last'.resp.status = 302]_vars

\* a patient has booked under a username (so its first registration had put a
\* patient record); the latest return is the success of another registration of
\* that username, past its existence check before the first put, and the store
\* holds the record of this later put only
C3_Witness ==
    /\ last.req.route = "/register"
    /\ last.req.method = "POST"
    /\ last.resp.flash = "Registration successful! Please log in."
    /\ last.req.role /= "patient"
    /\ users_table = {UserItem(last.req)}
    /\ \E a \in appointments_table : a.patient_email = last.req.username

(* ---------- C4 ---------- *)
\* C4: once a user record is stored, it is stored unchanged in every later state.
C4_UserRecordImmutable ==
    [][\A i \in users_table : i \in users_table']_vars

(* ---------- C5 ---------- *)
\* C5: no two stored appointments share an appointment_id, and each booking put
\* adds exactly one record, leaving every record stored before in place.
C5_AppointmentIdsUnique ==
    /\ [](\A a, b \in appointments_table :
            a.appointment_id = b.appointment_id => a = b)
    /\ [][\A p \in Procs :
            BookingPuts(p)
            => /\ appointments_table' = appointments_table \cup {item[p]}
               /\ \A a \in appointments_table :
                     a.appointment_id /= item[p].appointment_id
               /\ Cardinality(appointments_table')
                     = Cardinality(appointments_table) + 1]_vars

\* two bookings of one patient with one doctor, both stored
C5_Witness ==
    \E a, b \in appointments_table :
        /\ a /= b
        /\ a.doctor_id = b.doctor_id
        /\ a.patient_email = b.patient_email

(* ---------- C6 ---------- *)
\* C6: a patient listing requested with a patient session of u is not refused,
\* and returns exactly the stored appointments whose patient_email is u.
C6_PatientListingExact ==
    [][/\ (ReturnedAtOnce /\ last'.req.route = "/patient/appointments")
          => ~SessionHasRole(session[last'.req.client], "patient")
       /\ \A p \in Procs :
            /\ (Arrives(p) /\ req'[p].route = "/patient/appointments")
               => ctx_session'[p] = session[req'[p].client]
            /\ PatientListingReturns(p)
               => /\ SessionHasRole(ctx_session[p], "patient")
                  /\ last'.resp.status = 200
                  /\ last'.resp.items =
                        {a \in appointments_table :
                            a.patient_email = ctx_session[p].username}]_vars

\* a listing that returned the appointment of one patient and left out the
\* stored appointment of another patient
C6_Witness ==
    /\ last.req.route = "/patient/appointments"
    /\ last.resp.items /= {}
    /\ \E a \in appointments_table :
          /\ a \notin last.resp.items
          /\ \A b \in last.resp.items : b.patient_email /= a.patient_email

(* ---------- C7 ---------- *)
\* the uuid of an Item
GeneratedId(it) ==
    IF "appointment_id" \in DOMAIN it THEN it.appointment_id ELSE it.doctor_id

\* the uuids of the stored records and of the Items not yet put
IdsInUse ==
    {a.appointment_id : a \in appointments_table}
       \cup {d.doctor_id : d \in doctors_table}
       \cup {GeneratedId(item[q]) : q \in {x \in Procs : item[x] /= NoItem}}

\* C7: a booking POST of a patient session of u with (d, t, r) builds and stores
\* a record with doctor_id d, date t, reason r, patient_email u, status
\* "Scheduled" and an appointment_id no stored or pending record has; with that
\* single record stored, the listing of u returns exactly it.
C7_BookingStoresSubmittedFields ==
    [][\A p \in Procs :
        /\ BookingStarts(p)
           => LET r == req'[p]
                  a == item'[p]
              IN /\ a.doctor_id = r.doctor_id
                 /\ a.date = r.date
                 /\ a.reason = r.reason
                 /\ a.patient_email = session[r.client].username
                 /\ a.status = "Scheduled"
                 /\ DOMAIN a = {"appointment_id", "doctor_id", "patient_email",
                                "date", "reason", "status"}
                 /\ a.appointment_id \notin IdsInUse
        /\ BookingPuts(p)
           => /\ item[p] \notin appointments_table
              /\ item[p] \in appointments_table'
        /\ (/\ PatientListingReturns(p)
            /\ Cardinality(appointments_table) = 1
            /\ \A a \in appointments_table :
                  a.patient_email = ctx_session[p].username)
           => last'.resp.items = appointments_table]_vars

\* register alice as patient, log in, book once, list: one record, as submitted
C7_Witness ==
    /\ uuidCount = 1
    /\ last.req.route = "/patient/appointments"
    /\ last.resp.items =
          {[appointment_id |-> "uuid-1", doctor_id |-> "bob",
            patient_email |-> "alice", date |-> "2024-01-01",
            reason |-> "checkup", status |-> "Scheduled"]}

(* ---------- C8 ---------- *)
UnknownDoctor(d) == \A x \in doctors_table : x.doctor_id /= d

\* C8: a booking POST of a patient session is refused only by the role gate; its
\* record is stored and the booking reports success also when doctor_id is the
\* key of no doctor record, and the patient's listing returns such records.
C8_UnknownDoctorAccepted ==
    [][/\ \A p \in Procs :
            /\ (BookingPuts(p) /\ UnknownDoctor(item[p].doctor_id))
               => item[p] \in appointments_table'
            /\ (BookingReturns(p) /\ UnknownDoctor(item[p].doctor_id))
               => /\ item[p] \in appointments_table'
                  /\ last'.resp.status = 302
                  /\ last'.resp.flash = "Appointment booked successfully!"
            /\ PatientListingReturns(p)
               => \A a \in appointments_table :
                     (/\ a.patient_email = ctx_session[p].username
                      /\ UnknownDoctor(a.doctor_id))
                     => a \in last'.resp.items
       /\ (/\ ReturnedAtOnce
           /\ last'.req.route = "/appointment/book"
           /\ last'.req.method = "POST")
          => ~SessionHasRole(session[last'.req.client], "patient")]_vars

\* with no doctor record at all, a listing returned a booked appointment
C8_Witness ==
    /\ doctors_table = {}
    /\ last.req.route = "/patient/appointments"
    /\ \E a \in last.resp.items : a \in appointments_table

(* ---------- C9 ---------- *)
\* C9: a booking returns the same success response and leaves the same stored
\* record whether the publish succeeds, raises or is skipped for lack of a topic.
C9_PublishOutcomeIrrelevant ==
    [][\A p \in Procs :
        BookingReturns(p)
        => /\ last'.req = req[p]
           /\ [last'.resp EXCEPT !.sns = "-"]
                 = [flashed(redirect("/patient"), "Appointment booked successfully!")
                       EXCEPT !.sns = "-"]
           /\ last'.resp.sns \in {"published", "error", "skipped"}
           /\ (last'.resp.sns = "skipped") <=> (SNS_TOPIC_ARN = None)
           /\ item[p] \in appointments_table
           /\ appointments_table' = appointments_table]_vars

\* a booking whose publish raised has reported success and its record is stored
C9_Witness ==
    /\ last.req.route = "/appointment/book"
    /\ last.resp.sns = "error"
    /\ last.resp.flash = "Appointment booked successfully!"
    /\ \E a \in appointments_table : a.doctor_id = last.req.doctor_id

(* ---------- C10 ---------- *)
PatientRoutes == {"/patient", "/patient/appointments", "/appointment/book"}
DoctorRoutes == {"/doctor", "/doctor/appointments"}
GatedRoutes == PatientRoutes \cup DoctorRoutes
RequiredRole(route) == IF route \in DoctorRoutes THEN "doctor" ELSE "patient"

\* C10: a request to a role-gated route whose session does not hold the
\* required role is redirected to /login in the step it arrives, with no store,
\* no session changed and no notification attempted; a gated operation goes on
\* only for a request that arrived with the required role; an appointment
\* record is only built and only put for a request of a patient session.
C10_RoleGate ==
    [][/\ (ReturnedAtOnce /\ last'.req.route \in GatedRoutes)
          => IF SessionHasRole(session[last'.req.client],
                               RequiredRole(last'.req.route))
             THEN /\ last'.resp.status = 200
                  /\ last'.req.route \in {"/doctor", "/patient"}
             ELSE /\ last'.resp = redirect("/login")
                  /\ UNCHANGED <<users_table, doctors_table, appointments_table,
                                 session, uuidCount, item>>
       /\ \A p \in Procs :
            /\ (Arrives(p) /\ req'[p].route \in GatedRoutes)
               => /\ SessionHasRole(session[req'[p].client],
                                    RequiredRole(req'[p].route))
                  /\ ctx_session'[p] = session[req'[p].client]
            /\ (pc[p] /= "idle" /\ pc'[p] /= pc[p] /\ req[p].route \in GatedRoutes)
               => SessionHasRole(ctx_session[p], RequiredRole(req[p].route))
            /\ BookingStarts(p)
               => item'[p].patient_email = session[req'[p].client].username
       /\ (appointments_table' /= appointments_table)
          => \E p \in Procs :
                /\ BookingPuts(p)
                /\ SessionHasRole(ctx_session[p], "patient")
                /\ item[p].patient_email = ctx_session[p].username
                /\ appointments_table' = appointments_table \cup {item[p]}]_vars

\* a booking POST under a session of a role that is neither patient nor doctor
\* was redirected to /login, and nothing is stored
C10_Witness ==
    /\ last.req.route = "/appointment/book"
    /\ last.req.method = "POST"
    /\ last.resp = redirect("/login")
    /\ session[last.req.client] /= EmptySession
    /\ session[last.req.client].role \notin {"patient", "doctor"}
    /\ appointments_table = {}

(* ---------- C11 ---------- *)
\* C11: every stored appointment has status "Scheduled", and no step of any
\* operation removes a stored appointment or changes one of its fields.
C11_AppointmentImmutable ==
    /\ [](\A a \in appointments_table : a.status = "Scheduled")
    /\ [][\A a \in appointments_table : a \in appointments_table']_vars

\* two appointments with one doctor are stored, both "Scheduled", and a logout
\* has been served since
C11_Witness ==
    /\ last.req.route = "/logout"
    /\ \E a, b \in appointments_table :
          /\ a.appointment_id /= b.appointment_id
          /\ a.doctor_id = b.doctor_id
          /\ a.status = "Scheduled"
          /\ b.status = "Scheduled"

(* ---------- C12 ---------- *)
\* C12: every stored user record has role patient or doctor, and so has every
\* session that holds an identity.
C12_RolesPatientOrDoctor ==
    /\ \A i \in users_table : i.role \in {"patient", "doctor"}
    /\ \A c \in Clients :
          session[c] /= EmptySession => session[c].role \in {"patient", "doctor"}

(* ---------- C13 ---------- *)
\* C13: a register POST that found no record for its username stores its record
\* and answers with the redirect to /login and 'Registration successful',
\* whether the welcome email was sent or sending it raised; when it reports
\* success the store holds the submitted record in both cases, so that a login
\* with the registered password succeeds: every login with a stored username
\* and its stored password does.
C13_MailFailureSwallowed ==
    [][\A p \in Procs :
        /\ RegisterPuts(p)
           => users_table' =
                 {i \in users_table : i.username /= req[p].username}
                    \cup {[username |-> req[p].username,
                           password |-> req[p].password,
                           role |-> req[p].role]}
        /\ RegisterReturns(p)
           => /\ last'.req = req[p]
              /\ [last'.resp EXCEPT !.mail = "-"]
                    = [flashed(redirect("/login"),
                               "Registration successful! Please log in.")
                          EXCEPT !.mail = "-"]
              /\ last'.resp.mail \in {"sent", "error"}
              /\ users_table' = users_table
              /\ StoredUser(req[p].username)
                    = {[username |-> req[p].username,
                        password |-> req[p].password,
                        role |-> req[p].role]}
        /\ (/\ LoginReturns(p)
            /\ \E i \in users_table :
                  /\ i.username = req[p].username
                  /\ i.password = req[p].password)
           => /\ last'.resp.status = 302
              /\ session'[req[p].client].username = req[p].username]_vars

(* ---------- C14 ---------- *)
ProfileIds == {d.doctor_id : d \in doctors_table}

\* C14: a doctor listing requested with a doctor session of u is not refused,
\* and returns exactly the stored appointments whose doctor_id is u; an
\* appointment booked with the doctor_id of a registered profile is returned to
\* no doctor whose username is not that id.
C14_DoctorListingByUsername ==
    [][/\ (ReturnedAtOnce /\ last'.req.route = "/doctor/appointments")
          => ~SessionHasRole(session[last'.req.client], "doctor")
       /\ \A p \in Procs :
            /\ (Arrives(p) /\ req'[p].route = "/doctor/appointments")
               => ctx_session'[p] = session[req'[p].client]
            /\ DoctorListingReturns(p)
               => LET u == ctx_session[p].username
                  IN /\ SessionHasRole(ctx_session[p], "doctor")
                     /\ last'.resp.status = 200
                     /\ last'.resp.items =
                           {a \in appointments_table : a.doctor_id = u}
                     /\ \A a \in appointments_table :
                           (a.doctor_id \in ProfileIds /\ a.doctor_id /= u)
                           => a \notin last'.resp.items]_vars

\* an appointment is booked with the generated doctor_id of a registered
\* profile, and a doctor's listing came back empty
C14_Witness ==
    /\ last.req.route = "/doctor/appointments"
    /\ last.resp.status = 200
    /\ last.resp.items = {}
    /\ \E a \in appointments_table : a.doctor_id \in ProfileIds

(* ---------- C15 ---------- *)
\* C15: logout leaves the session without identity and changes no store; a
\* session without identity gets one only by a successful login; and while the
\* session has no identity every role-gated request is redirected to /login
\* and starts no gated operation.
C15_LogoutClearsIdentity ==
    [][/\ (ReturnedAtOnce /\ last'.req.route = "/logout")
          => /\ session'[last'.req.client] = EmptySession
             /\ last'.resp = redirect("/")
             /\ UNCHANGED <<users_table, doctors_table, appointments_table>>
       /\ \A c \in Clients :
            (session[c] = EmptySession /\ session'[c] /= EmptySession)
            => \E p \in Procs :
                  /\ LoginReturns(p)
                  /\ req[p].client = c
                  /\ last'.resp.status = 302
       /\ (/\ ReturnedAtOnce
           /\ last'.req.route \in GatedRoutes
           /\ session[last'.req.client] = EmptySession)
          => last'.resp = redirect("/login")
       /\ \A p \in Procs :
            (Arrives(p) /\ req'[p].route \in GatedRoutes)
            => session[req'[p].client] /= EmptySession]_vars

(* ---------- C16 ---------- *)
\* C16: a doctor registration POST is accepted whatever the session (none, a
\* patient's, a doctor's); it adds exactly one record, with the submitted fields
\* and a doctor_id no stored profile has, and no step removes or changes a
\* stored profile; the booking page lists exactly the stored profiles.
C16_DoctorRegisterOpen ==
    [][/\ (ReturnedAtOnce /\ last'.req.route = "/doctor/register")
          => /\ last'.req.method = "GET"
             /\ last'.resp.status = 200
       /\ \A p \in Procs :
            /\ DoctorRegisterPuts(p)
               => /\ last'.resp = flashed(redirect("/login"),
                                        "Doctor registered successfully!")
                  /\ Cardinality(doctors_table') = Cardinality(doctors_table) + 1
                  /\ \E d \in doctors_table' \ doctors_table :
                        /\ d.doctor_id \notin ProfileIds
                        /\ d.name = req[p].name
                        /\ d.specialization = req[p].specialization
                        /\ d.email = req[p].email
            /\ BookingPageReturns(p)
               => last'.resp.items = doctors_table
       /\ \A d \in doctors_table : d \in doctors_table'
       /\ (doctors_table' /= doctors_table)
          => \E p \in Procs : DoctorRegisterPuts(p)]_vars

\* two profiles with the same name, specialization and email are stored under
\* two doctor_ids, and the booking page has listed both
C16_Witness ==
    /\ last.req.route = "/appointment/book"
    /\ last.req.method = "GET"
    /\ last.resp.items = doctors_table
    /\ Cardinality(doctors_table) = 2

(* ---------- C17 ---------- *)
\* worker p calls send_sns_notification and returns
Notifies(p) == pc[p] = "send_sns_notification" /\ pc'[p] /= pc[p]

SessionsHeld ==
    {session[c] : c \in Clients} \cup {ctx_session[p] : p \in Procs}

\* identity s, if any, is the username and role of a stored user
RoleStored(s) ==
    s /= EmptySession
    => \E i \in users_table : i.username = s.username /\ i.role = s.role

\* a register request puts a record for a username that got stored after the
\* request's existence check: it has overlapped another registration of u
OverlappingPut(u) ==
    \E p \in Procs :
        /\ RegisterPuts(p)
        /\ req[p].username = u
        /\ StoredUser(u) /= {}

\* C18: the username of every session identity and the patient_email of every
\* stored appointment is the username of a stored user; and the role of every
\* session is the stored role of its username until a register request that
\* overlapped another one for that username replaces the record.
C18_IdentityIsStoredUser ==
    /\ [](\A s \in SessionsHeld :
            s /= EmptySession => StoredUser(s.username) /= {})
    /\ [](\A a \in appointments_table : StoredUser(a.patient_email) /= {})
    /\ [][\A s \in SessionsHeld' :
            ~RoleStored(s)'
            => \/ s \in SessionsHeld /\ ~RoleStored(s)
               \/ s \in SessionsHeld /\ OverlappingPut(s.username)]_vars

\* a doctor is logged in under the stored role of a username whose record an
\* overlapping registration has replaced, and the store holds the appointment
\* that username booked as a patient
C18_Witness ==
    /\ \E c \in Clients :
          /\ session[c].role = "doctor"
          /\ \E i \in users_table :
                i.username = session[c].username /\ i.role = "doctor"
          /\ \E a \in appointments_table : a.patient_email = session[c].username

(* ---------- C19 ---------- *)
\* C19: a login POST answered 'Invalid credentials' leaves every session as it
\* was; one answered with the redirect sets the client's whole identity to the
\* submitted username and the role stored for it, and leaves other clients'
\* sessions.
C19_FailedLoginKeepsSession ==
    [][\A p \in Procs :
        LoginReturns(p)
        => IF last'.resp.status = 302
           THEN LET c == req[p].client
                IN /\ session'[c].has = {"username", "role"}
                   /\ session'[c].username = req[p].username
                   /\ \E i \in StoredUser(req[p].username) :
                         session'[c].role = i.role
                   /\ \A d \in Clients \ {c} : session'[d] = session[d]
           ELSE /\ last'.resp.flash = "Invalid credentials!"
                /\ session' = session]_vars

(* ---------- C20 ---------- *)
\* C20: the users table is changed only by the put of register, the
\* appointments table only by the put of a booking, the doctors table only by
\* the put of a doctor registration, each leaving the two other tables; the
\* requests answered in the step they arrive and the steps that answer login,
\* the listings and the booking page change no table; the session is changed
\* only by the answer of a login and by logout.
C20_FrameEffects ==
    [][/\ (users_table' /= users_table)
          => /\ \E p \in Procs : RegisterPuts(p)
             /\ UNCHANGED <<doctors_table, appointments_table>>
       /\ (appointments_table' /= appointments_table)
          => /\ \E p \in Procs : BookingPuts(p)
             /\ UNCHANGED <<users_table, doctors_table>>
       /\ (doctors_table' /= doctors_table)
          => /\ \E p \in Procs : DoctorRegisterPuts(p)
             /\ UNCHANGED <<users_table, appointments_table>>
       /\ (session' /= session)
          => \/ \E p \in Procs : LoginReturns(p)
             \/ ReturnedAtOnce /\ last'.req.route = "/logout"
       /\ (\/ ReturnedAtOnce
           \/ \E p \in Procs :
                 \/ Arrives(p)
                 \/ LoginReturns(p)
                 \/ PatientListingReturns(p)
                 \/ DoctorListingReturns(p)
                 \/ BookingPageReturns(p))
          => UNCHANGED <<users_table, doctors_table, appointments_table>>]_vars

====
